---- MODULE Spec2Model ----
(***************************************************************************)
(* ChatClient (book_frontend/src/plugins/rag-chatbot/api/chatClient.ts):   *)
(* four asynchronous operations over fetch.  Every invocation is a small   *)
(* coroutine: it runs up to `await fetch(...)`, is resumed when the        *)
(* transport settles, checks the status, and possibly suspends once more   *)
(* on response.json().                                                     *)
(*                                                                         *)
(* Strings that the code builds by interpolation (URLs, error messages)    *)
(* are sequences of their non-empty pieces, so that "the message contains  *)
(* the status text" is a statement about the pieces.                       *)
(***************************************************************************)
EXTENDS Integers, Sequences, FiniteSets

(* Number of invocations one behaviour of SpecConc issues. *)
MaxCalls == 2

----------------------------------------------------------------------------
(* JavaScript / JSON values.  Every value has the same three fields so     *)
(* that values of different JavaScript types can be compared.              *)

Scalar(t, v) == [t |-> t, v |-> v, items |-> <<>>]
Undefined == Scalar("undefined", "undefined")
Null == Scalar("null", "null")
Str(s) == Scalar("string", s)
Num(s) == Scalar("number", s)
Bool(s) == Scalar("boolean", s)
NestedObject == Scalar("object", "")
Arr(items) == [t |-> "array", v |-> "", items |-> items]

(* A SourceChunk as it sits in a JSON array; the client never looks inside. *)
Chunk(id, score) == [chunk_id |-> id, score |-> score]

(* The text on the wire: JSON text of an object (its members in textual    *)
(* order), the JSON text `null`, text that is not JSON, or no text at all. *)
Member(k, v) == [key |-> k, value |-> v]
ObjectText(members) == [syntax |-> "json", top |-> "object", members |-> members]
NullText == [syntax |-> "json", top |-> "null", members |-> <<>>]
InvalidText == [syntax |-> "invalid", top |-> "none", members |-> <<>>]
EmptyText == [syntax |-> "empty", top |-> "none", members |-> <<>>]
NoBody == [syntax |-> "nobody", top |-> "none", members |-> <<>>]

NoFields == [k \in {} |-> Undefined]

(* JSON.parse: an object's members become its properties, a repeated key   *)
(* keeps its last value; anything that is not JSON text is a SyntaxError.  *)
LastIndexOf(members, k) == CHOOSE i \in 1..Len(members) :
    /\ members[i].key = k
    /\ \A j \in (i+1)..Len(members) : members[j].key # k

JSONparse(text) ==
    IF text.syntax # "json"
    THEN [ok |-> FALSE, t |-> "none", fields |-> NoFields]
    ELSE IF text.top = "null"
    THEN [ok |-> TRUE, t |-> "null", fields |-> NoFields]
    ELSE [ok |-> TRUE, t |-> "object",
          fields |-> [k \in {text.members[i].key : i \in 1..Len(text.members)} |->
                         text.members[LastIndexOf(text.members, k)].value]]

(* JSON.stringify of an object literal: properties in insertion order,     *)
(* a property whose value is undefined is left out.                        *)
RECURSIVE DropUndefined(_)
DropUndefined(members) ==
    IF members = <<>> THEN <<>>
    ELSE IF Head(members).value.t = "undefined" THEN DropUndefined(Tail(members))
    ELSE <<Head(members)>> \o DropUndefined(Tail(members))

JSONstringify(members) == ObjectText(DropUndefined(members))

(* Property read `o.k` on a parsed value that is not null.                 *)
GetProp(parsed, k) ==
    IF parsed.t = "object" /\ k \in DOMAIN parsed.fields THEN parsed.fields[k] ELSE Undefined

(* JavaScript truthiness, as `||` tests it.                                *)
Truthy(val) ==
    CASE val.t = "undefined" -> FALSE
      [] val.t = "null" -> FALSE
      [] val.t = "string" -> val.v # ""
      [] val.t = "number" -> val.v # "0"
      [] val.t = "boolean" -> val.v = "true"
      [] OTHER -> TRUE

(* A template literal `${prefix}${s}`: the non-empty pieces.               *)
Pieces(s) == IF s = "" THEN <<>> ELSE <<s>>
Template(prefix, s) == Pieces(prefix) \o Pieces(s)

(* String(v), as `new Error(v)` applies it to its argument: the pieces of  *)
(* the resulting string.                                                   *)
RECURSIVE JoinObjects(_)
JoinObjects(n) ==
    IF n = 0 THEN <<>>
    ELSE IF n = 1 THEN <<"[object Object]">>
    ELSE JoinObjects(n - 1) \o <<",", "[object Object]">>

JSString(val) ==
    CASE val.t = "string" -> Pieces(val.v)
      [] val.t = "object" -> <<"[object Object]">>
      [] val.t = "array" -> JoinObjects(Len(val.items))
      [] OTHER -> <<val.v>>

(* new Error(message): name "Error", message String(message).              *)
NewError(msg) == [name |-> "Error", message |-> msg]

(* What response.json() rejects with on text that is not JSON.             *)
SyntaxError(text) ==
    [name |-> "SyntaxError",
     message |-> IF text.syntax = "json" THEN <<>>
                 ELSE IF text.syntax = "invalid" THEN <<"Unexpected token">>
                 ELSE <<"Unexpected end of JSON input">>]

(* What `error.detail` throws when error is null.                          *)
NullPropertyError == [name |-> "TypeError", message |-> <<"Cannot read properties of null">>]

----------------------------------------------------------------------------
(* The client and its invocations.                                         *)

VARIABLES
    nodeEnv,     \* process.env.NODE_ENV when the module is loaded
    ctorArg,     \* the constructor's argument; "" when it is omitted
    baseUrl,     \* this.baseUrl
    pc,          \* where each invocation stands
    op,          \* the operation each invocation runs
    arg,         \* the caller's argument, as the members of an object
    requests,    \* the fetch calls each invocation has made, in order
    response,    \* how each invocation's fetch promise settled
    bodyReads,   \* how many times each invocation called response.json()
    outcome      \* how each invocation's own promise settled

vars == <<nodeEnv, ctorArg, baseUrl, pc, op, arg, requests, response, bodyReads, outcome>>

Calls == 1..MaxCalls

API_BASE_URL == IF nodeEnv = "production"
                THEN "https://rag-chatbot-api-lr57.onrender.com"
                ELSE "http://localhost:8000"

Pending == [state |-> "pending", status |-> 0, statusText |-> "", body |-> NoBody,
            error |-> [name |-> "", message |-> <<>>]]
Resolved(r) == [state |-> "resolved", status |-> r.status, statusText |-> r.statusText,
                body |-> r.body, error |-> [name |-> "", message |-> <<>>]]
Rejected(e) == [state |-> "rejected", status |-> 0, statusText |-> "", body |-> NoBody,
                error |-> e]

NoValue == [ok |-> TRUE, t |-> "undefined", fields |-> NoFields]
Unsettled == [state |-> "pending", value |-> NoValue, error |-> [name |-> "", message |-> <<>>]]
Fulfil(v) == [state |-> "fulfilled", value |-> v, error |-> [name |-> "", message |-> <<>>]]
Reject(e) == [state |-> "rejected", value |-> NoValue, error |-> e]

(* response.ok *)
Ok(r) == r.status \in 200..299

(* fetch(url, init) with the JSON headers of the three POST operations.    *)
PostRequest(path, members) ==
    [url |-> Template(baseUrl, path), method |-> "POST",
     contentType |-> "application/json", body |-> JSONstringify(members)]

(* fetch(url): a GET without headers or body.                              *)
GetRequest(path) ==
    [url |-> Template(baseUrl, path), method |-> "GET", contentType |-> "", body |-> NoBody]

(* constructor(baseUrl = API_BASE_URL), for the singleton and for any      *)
(* other instance.                                                         *)
Init ==
    /\ nodeEnv \in {"production", "development"}
    /\ ctorArg \in {"", "http://backend.test"}
    /\ baseUrl = IF ctorArg = "" THEN API_BASE_URL ELSE ctorArg
    /\ pc = [i \in Calls |-> "idle"]
    /\ op = [i \in Calls |-> "none"]
    /\ arg = [i \in Calls |-> <<>>]
    /\ requests = [i \in Calls |-> <<>>]
    /\ response = [i \in Calls |-> Pending]
    /\ bodyReads = [i \in Calls |-> 0]
    /\ outcome = [i \in Calls |-> Unsettled]

(* An invocation starts: everything up to the first await.  Invocations    *)
(* are numbered in the order the caller issues them.                       *)
Begin(i, o, a, req) ==
    /\ \A j \in Calls : j < i => pc[j] # "idle"
    /\ pc' = [pc EXCEPT ![i] = "awaitFetch"]
    /\ op' = [op EXCEPT ![i] = o]
    /\ arg' = [arg EXCEPT ![i] = a]
    /\ requests' = [requests EXCEPT ![i] = Append(@, req)]
    /\ UNCHANGED <<nodeEnv, ctorArg, baseUrl, response, bodyReads, outcome>>

CreateSessionBody(userIdentifier) == <<Member("user_identifier", userIdentifier)>>

CreateSession(i, userIdentifier) ==
    /\ pc[i] = "idle"
    /\ Begin(i, "createSession", <<Member("userIdentifier", userIdentifier)>>,
          PostRequest("/api/session", CreateSessionBody(userIdentifier)))

SendQueryBodyCachedSession(request) ==
    LET known == {j \in Calls : /\ outcome[j].state = "fulfilled"
                                /\ "session_id" \in DOMAIN outcome[j].value.fields}
    IN  IF known = {} THEN request
        ELSE [request EXCEPT ![Len(request)] =
                 Member("session_id", outcome[CHOOSE j \in known : TRUE].value.fields["session_id"])]

SendQueryBody(request) == request

SendQuery(i, request) ==
    /\ pc[i] = "idle"
    /\ Begin(i, "sendQuery", request, PostRequest("/api/chat", SendQueryBody(request)))

SubmitFeedback(i, request) ==
    /\ pc[i] = "idle"
    /\ Begin(i, "submitFeedback", request, PostRequest("/api/feedback", request))

HealthCheck(i) ==
    /\ pc[i] = "idle"
    /\ Begin(i, "healthCheck", <<>>, GetRequest("/api/health"))

(* The transport settles an invocation's fetch promise.                    *)
FetchResolve(i, r) ==
    /\ pc[i] = "awaitFetch"
    /\ pc' = [pc EXCEPT ![i] = "fetched"]
    /\ response' = [response EXCEPT ![i] = Resolved(r)]
    /\ UNCHANGED <<nodeEnv, ctorArg, baseUrl, op, arg, requests, bodyReads, outcome>>

FetchReject(i, e) ==
    /\ pc[i] = "awaitFetch"
    /\ pc' = [pc EXCEPT ![i] = "fetched"]
    /\ response' = [response EXCEPT ![i] = Rejected(e)]
    /\ UNCHANGED <<nodeEnv, ctorArg, baseUrl, op, arg, requests, bodyReads, outcome>>

(* `const response = await fetch(...)`: the value the invocation resumes   *)
(* with is the settlement of its own fetch promise.                        *)
ResponseOfSharedSlot(i) ==
    response[CHOOSE j \in Calls :
                /\ response[j].state # "pending"
                /\ \A k \in Calls : response[k].state # "pending" => k <= j]

ResponseOf(i) == response[i]

(* The invocation settles.                                                 *)
Settle(i, result) ==
    /\ pc' = [pc EXCEPT ![i] = "done"]
    /\ outcome' = [outcome EXCEPT ![i] = result]
    /\ UNCHANGED <<nodeEnv, ctorArg, baseUrl, op, arg, requests, response, bodyReads>>

(* `await fetch(...)` throws what the transport raised; no operation       *)
(* catches it, so the invocation rejects with that very error.             *)
PropagateAfterRetry(i, e) ==
    /\ pc' = [pc EXCEPT ![i] = "awaitFetch"]
    /\ requests' = [requests EXCEPT ![i] = Append(@, @[1])]
    /\ response' = [response EXCEPT ![i] = Pending]
    /\ UNCHANGED <<nodeEnv, ctorArg, baseUrl, op, arg, bodyReads, outcome>>

PropagateReclassified(i, e) ==
    Settle(i, Reject(NewError(<<"Network error. Please try again.">>)))

Propagate(i, e) == Settle(i, Reject(e))

(* The invocation calls response.json() and suspends on it.                *)
ReadBody(i, next) ==
    /\ pc' = [pc EXCEPT ![i] = next]
    /\ bodyReads' = [bodyReads EXCEPT ![i] = @ + 1]
    /\ UNCHANGED <<nodeEnv, ctorArg, baseUrl, op, arg, requests, response, outcome>>

(* createSession, resumed after `await fetch`.                             *)
CreateSessionErrorWithoutText(r) == NewError(<<"Failed to create session">>)

CreateSessionError(r) == NewError(Template("Failed to create session: ", r.statusText))

CreateSessionResume(i) ==
    /\ pc[i] = "fetched"
    /\ op[i] = "createSession"
    /\ LET r == ResponseOf(i) IN
         IF r.state = "rejected" THEN Propagate(i, r.error)
         ELSE IF ~Ok(r) THEN Settle(i, Reject(CreateSessionError(r)))
         ELSE ReadBody(i, "awaitResult")

(* `return response.json()`: the invocation settles as the body promise    *)
(* does.                                                                   *)
ReturnJson(i) ==
    LET r == ResponseOf(i)
        parsed == JSONparse(r.body)
    IN  Settle(i, IF parsed.ok THEN Fulfil(parsed) ELSE Reject(SyntaxError(r.body)))

CreateSessionReturn(i) ==
    /\ pc[i] = "awaitResult"
    /\ op[i] = "createSession"
    /\ ReturnJson(i)

(* sendQuery, resumed after `await fetch`.                                 *)
RateLimitMessage == <<"Rate limit exceeded. Please wait a moment and try again.">>
InvalidRequestMessage == <<"Invalid request">>
SendQueryError(r) == NewError(Template("Failed to send query: ", r.statusText))

SendQueryResumeDetailFirst(i) ==
    /\ pc[i] = "fetched"
    /\ op[i] = "sendQuery"
    /\ LET r == ResponseOf(i) IN
         IF r.state = "rejected" THEN Propagate(i, r.error)
         ELSE IF ~Ok(r) THEN
              IF r.status \in 400..499 THEN ReadBody(i, "awaitDetail")
              ELSE Settle(i, Reject(SendQueryError(r)))
         ELSE ReadBody(i, "awaitResult")

SendQueryResume(i) ==
    /\ pc[i] = "fetched"
    /\ op[i] = "sendQuery"
    /\ LET r == ResponseOf(i) IN
         IF r.state = "rejected" THEN Propagate(i, r.error)
         ELSE IF ~Ok(r) THEN
              IF r.status = 429 THEN Settle(i, Reject(NewError(RateLimitMessage)))
              ELSE IF r.status = 400 THEN ReadBody(i, "awaitDetail")
              ELSE Settle(i, Reject(SendQueryError(r)))
         ELSE ReadBody(i, "awaitResult")

(* `error.detail || 'Invalid request'`, given the parsed body.             *)
DetailMessageNullish(error) ==
    LET detail == GetProp(error, "detail")
    IN  IF detail.t \in {"undefined", "null"} THEN InvalidRequestMessage ELSE JSString(detail)

DetailMessage(error) ==
    LET detail == GetProp(error, "detail")
    IN  IF Truthy(detail) THEN JSString(detail) ELSE InvalidRequestMessage

(* sendQuery on a 400, resumed after `await response.json()`.              *)
SendQueryDetailTolerant(i) ==
    /\ pc[i] = "awaitDetail"
    /\ op[i] = "sendQuery"
    /\ LET r == ResponseOf(i)
           error == JSONparse(r.body)
       IN  Settle(i, IF ~error.ok \/ error.t = "null" THEN Reject(NewError(InvalidRequestMessage))
                     ELSE Reject(NewError(DetailMessage(error))))

SendQueryDetail(i) ==
    /\ pc[i] = "awaitDetail"
    /\ op[i] = "sendQuery"
    /\ LET r == ResponseOf(i)
           error == JSONparse(r.body)
       IN  Settle(i, IF ~error.ok THEN Reject(SyntaxError(r.body))
                     ELSE IF error.t = "null" THEN Reject(NullPropertyError)
                     ELSE Reject(NewError(DetailMessage(error))))

(* Chunks by descending score, as a display would want them.               *)
RECURSIVE InsertByScore(_, _)
InsertByScore(c, sorted) ==
    IF sorted = <<>> THEN <<c>>
    ELSE IF c.score >= Head(sorted).score THEN <<c>> \o sorted
    ELSE <<Head(sorted)>> \o InsertByScore(c, Tail(sorted))

RECURSIVE SortByScore(_)
SortByScore(items) ==
    IF items = <<>> THEN <<>> ELSE InsertByScore(Head(items), SortByScore(Tail(items)))

SendQueryReturnSorted(i) ==
    /\ pc[i] = "awaitResult"
    /\ op[i] = "sendQuery"
    /\ LET r == ResponseOf(i)
           parsed == JSONparse(r.body)
           ranked == [k \in DOMAIN parsed.fields |->
                         IF k = "source_chunks"
                         THEN Arr(SortByScore(parsed.fields[k].items))
                         ELSE parsed.fields[k]]
       IN  Settle(i, IF parsed.ok THEN Fulfil([parsed EXCEPT !.fields = ranked])
                     ELSE Reject(SyntaxError(r.body)))

SendQueryReturn(i) ==
    /\ pc[i] = "awaitResult"
    /\ op[i] = "sendQuery"
    /\ ReturnJson(i)

(* submitFeedback, resumed after `await fetch`.                            *)
DuplicateFeedbackMessage == <<"Feedback already submitted for this response">>
SubmitFeedbackError(r) == NewError(Template("Failed to submit feedback: ", r.statusText))

SubmitFeedbackResumeWithout409(i) ==
    /\ pc[i] = "fetched"
    /\ op[i] = "submitFeedback"
    /\ LET r == ResponseOf(i) IN
         IF r.state = "rejected" THEN Propagate(i, r.error)
         ELSE IF ~Ok(r) THEN Settle(i, Reject(SubmitFeedbackError(r)))
         ELSE Settle(i, Fulfil(NoValue))

SubmitFeedbackResume(i) ==
    /\ pc[i] = "fetched"
    /\ op[i] = "submitFeedback"
    /\ LET r == ResponseOf(i) IN
         IF r.state = "rejected" THEN Propagate(i, r.error)
         ELSE IF ~Ok(r) THEN
              IF r.status = 409 THEN Settle(i, Reject(NewError(DuplicateFeedbackMessage)))
              ELSE Settle(i, Reject(SubmitFeedbackError(r)))
         ELSE Settle(i, Fulfil(NoValue))

(* healthCheck, resumed after `await fetch`.                               *)
HealthCheckMessage == <<"API health check failed">>

HealthCheckResume(i) ==
    /\ pc[i] = "fetched"
    /\ op[i] = "healthCheck"
    /\ LET r == ResponseOf(i) IN
         IF r.state = "rejected" THEN Propagate(i, r.error)
         ELSE IF ~Ok(r) THEN Settle(i, Reject(NewError(HealthCheckMessage)))
         ELSE ReadBody(i, "awaitResult")

HealthCheckReturn(i) ==
    /\ pc[i] = "awaitResult"
    /\ op[i] = "healthCheck"
    /\ ReturnJson(i)

----------------------------------------------------------------------------
(* What callers pass and what the backend and the transport answer.        *)

UserIdentifiers == {Undefined, Str("reader-1")}

QueryRequest(mode, selected, session) ==
    <<Member("query_text", Str("What is a humanoid robot?")), Member("mode", Str(mode)),
      Member("selected_text", selected), Member("session_id", session)>>

QueryRequests ==
    {QueryRequest("full_book", Undefined, s) : s \in {Undefined, Null, Str("s1")}}
    \cup {QueryRequest("selection", Str("bipedal gait"), Str("s1")),
          QueryRequest("chapter", Null, Undefined)}

FeedbackRequests ==
    {<<Member("response_id", Str("r1")), Member("rating", Str("positive")),
       Member("feedback_text", Undefined)>>,
     <<Member("response_id", Str("r1")), Member("rating", Str("negative")),
       Member("feedback_text", Str("wrong chapter"))>>}

SessionBody ==
    ObjectText(<<Member("session_id", Str("s2")), Member("created_at", Str("2025-01-01T00:00:00Z"))>>)

SourceChunks == <<Chunk("c1", 71), Chunk("c2", 93), Chunk("c3", 85)>>

ChatBody ==
    ObjectText(<<Member("response_id", Str("r1")), Member("response_text", Str("A robot.")),
                 Member("source_chunks", Arr(SourceChunks)),
                 Member("response_time_ms", Num("12")), Member("session_id", Str("s2"))>>)

ChatBodyWithoutChunks ==
    ObjectText(<<Member("response_id", Str("r1")), Member("response_text", Str("A robot."))>>)

HealthBody == ObjectText(<<Member("status", Str("ok")), Member("version", Str("1.2.3"))>>)

DetailValues ==
    {Str("bad mode"), Str(""), Null, Num("0"), Bool("false"), Bool("true"), NestedObject,
     Arr(<<>>), Arr(<<Chunk("loc", 0)>>)}

DetailBody(d) == ObjectText(<<Member("detail", d)>>)

Bodies ==
    {SessionBody, ChatBody, ChatBodyWithoutChunks, HealthBody, ObjectText(<<>>),
     NullText, InvalidText, EmptyText}
    \cup {DetailBody(d) : d \in DetailValues}

ReasonPhrase(status) ==
    CASE status = 200 -> "OK"
      [] status = 201 -> "Created"
      [] status = 400 -> "Bad Request"
      [] status = 404 -> "Not Found"
      [] status = 409 -> "Conflict"
      [] status = 429 -> "Too Many Requests"
      [] status = 500 -> "Internal Server Error"
      [] OTHER -> ""

(* Over HTTP/2 the status text is empty.                                   *)
Responses(statuses, bodies) ==
    UNION {{[status |-> st, statusText |-> tx, body |-> b] :
                tx \in {ReasonPhrase(st), ""}, b \in bodies} : st \in statuses}

Statuses == {200, 201, 400, 404, 409, 429, 500}

TransportErrors ==
    {[name |-> "TypeError", message |-> <<"Failed to fetch">>],
     [name |-> "AbortError", message |-> <<"The operation was aborted.">>]}

(* One step of invocation i, the caller's and the backend's choices drawn  *)
(* from the given sets.                                                    *)
Step(i, users, queries, feedbacks, answers, failures) ==
    \/ \E u \in users : CreateSession(i, u)
    \/ \E q \in queries : SendQuery(i, q)
    \/ \E f \in feedbacks : SubmitFeedback(i, f)
    \/ HealthCheck(i)
    \/ \E r \in answers : FetchResolve(i, r)
    \/ \E e \in failures : FetchReject(i, e)
    \/ CreateSessionResume(i)
    \/ CreateSessionReturn(i)
    \/ SendQueryResume(i)
    \/ SendQueryDetail(i)
    \/ SendQueryReturn(i)
    \/ SubmitFeedbackResume(i)
    \/ HealthCheckResume(i)
    \/ HealthCheckReturn(i)

(* One invocation, against everything the backend may answer.              *)
Next ==
    Step(1, UserIdentifiers, QueryRequests, FeedbackRequests,
         Responses(Statuses, Bodies), TransportErrors)

Spec == Init /\ [][Next]_vars

(* Several invocations in flight at once, their fetches settling in any    *)
(* order.                                                                  *)
ConcQueries == {QueryRequest("full_book", Undefined, s) : s \in {Undefined, Str("s1")}}
ConcResponses ==
    {[status |-> 200, statusText |-> "OK", body |-> SessionBody],
     [status |-> 400, statusText |-> "Bad Request", body |-> DetailBody(Str("bad mode"))],
     [status |-> 500, statusText |-> "Internal Server Error", body |-> InvalidText]}

NextConc ==
    \E i \in Calls :
        Step(i, {Undefined}, ConcQueries, {<<Member("response_id", Str("r1"))>>},
             ConcResponses, {[name |-> "TypeError", message |-> <<"Failed to fetch">>]})

SpecConc == Init /\ [][NextConc]_vars

----------------------------------------------------------------------------
(* Properties.                                                             *)

Done(i) == pc[i] = "done"
Answered(i) == response[i].state = "resolved"
Success(i) == Answered(i) /\ response[i].status \in 200..299
Failure(i) == Answered(i) /\ response[i].status \notin 200..299
Contains(message, text) == text = "" \/ \E k \in 1..Len(message) : message[k] = text
Failed(i, name, message) ==
    /\ outcome[i].state = "rejected"
    /\ outcome[i].error = [name |-> name, message |-> message]
SpecialCased(i) ==
    \/ op[i] = "sendQuery" /\ response[i].status \in {429, 400}
    \/ op[i] = "submitFeedback" /\ response[i].status = 409
HasMember(text, k) == \E n \in 1..Len(text.members) : text.members[n].key = k
MemberOf(text, k) == text.members[CHOOSE n \in 1..Len(text.members) : text.members[n].key = k].value

(* C1, as stated: on every operation, a non-success status that is not     *)
(* special-cased makes the call fail with a message that contains the      *)
(* response's status text.                                                 *)
C1_StatusTextOnEveryOperation ==
    \A i \in Calls :
        Done(i) /\ Failure(i) /\ ~SpecialCased(i) =>
            /\ outcome[i].state = "rejected"
            /\ Contains(outcome[i].error.message, response[i].statusText)

(* C1, amended: createSession, sendQuery and submitFeedback fail with      *)
(* their own prefix followed by the status text; healthCheck fails with    *)
(* the fixed message "API health check failed", whatever the status text.  *)
C1_StatusTextExceptHealthCheck ==
    \A i \in Calls :
        Done(i) /\ Failure(i) /\ ~SpecialCased(i) =>
            /\ outcome[i].state = "rejected"
            /\ outcome[i].error.name = "Error"
            /\ op[i] = "createSession" =>
                   outcome[i].error.message =
                       <<"Failed to create session: ">> \o Pieces(response[i].statusText)
            /\ op[i] = "sendQuery" =>
                   outcome[i].error.message =
                       <<"Failed to send query: ">> \o Pieces(response[i].statusText)
            /\ op[i] = "submitFeedback" =>
                   outcome[i].error.message =
                       <<"Failed to submit feedback: ">> \o Pieces(response[i].statusText)
            /\ op[i] # "healthCheck" =>
                   Contains(outcome[i].error.message, response[i].statusText)
            /\ op[i] = "healthCheck" =>
                   outcome[i].error.message = <<"API health check failed">>

C1_Witness ==
    \E i \in Calls :
        /\ Done(i)
        /\ op[i] = "createSession"
        /\ Answered(i)
        /\ response[i].status = 500
        /\ response[i].statusText = "Internal Server Error"
        /\ outcome[i].state = "rejected"

(* C2, as stated: a 400 answer to sendQuery whose JSON body has a `detail` *)
(* fails with a message equal to that detail, whatever the detail is; one  *)
(* whose body has no `detail` fails with "Invalid request".                *)
C2_DetailAlwaysTheMessage ==
    \A i \in Calls :
        Done(i) /\ op[i] = "sendQuery" /\ Answered(i) /\ response[i].status = 400
          /\ response[i].body.syntax = "json" =>
            IF HasMember(response[i].body, "detail")
            THEN /\ MemberOf(response[i].body, "detail").t = "string"
                 /\ Failed(i, "Error", Pieces(MemberOf(response[i].body, "detail").v))
            ELSE Failed(i, "Error", <<"Invalid request">>)

(* C2, amended: when the 400 body is a JSON object, a `detail` that is a   *)
(* non-empty string is the message; a `detail` that is absent, "", null,   *)
(* 0 or false gives "Invalid request"; any other detail is the message     *)
(* after String(): "[object Object]" for an object or an array of one      *)
(* object, "" for an empty array, "true" for true.                         *)
C2_TruthyDetailOrInvalidRequest ==
    \A i \in Calls :
        Done(i) /\ op[i] = "sendQuery" /\ Answered(i) /\ response[i].status = 400
          /\ response[i].body.syntax = "json" /\ response[i].body.top = "object" =>
            IF ~HasMember(response[i].body, "detail")
            THEN Failed(i, "Error", <<"Invalid request">>)
            ELSE LET d == MemberOf(response[i].body, "detail") IN
                 /\ d.t = "string" /\ d.v # "" => Failed(i, "Error", <<d.v>>)
                 /\ d \in {Str(""), Null, Num("0"), Bool("false")} =>
                        Failed(i, "Error", <<"Invalid request">>)
                 /\ d = NestedObject => Failed(i, "Error", <<"[object Object]">>)
                 /\ d = Arr(<<>>) => Failed(i, "Error", <<>>)
                 /\ d = Arr(<<Chunk("loc", 0)>>) => Failed(i, "Error", <<"[object Object]">>)
                 /\ d = Bool("true") => Failed(i, "Error", <<"true">>)

C2_Witness ==
    \E i \in Calls :
        /\ Done(i)
        /\ op[i] = "sendQuery"
        /\ Answered(i)
        /\ response[i].status = 400
        /\ response[i].body = DetailBody(Str("bad mode"))
        /\ outcome[i].state = "rejected"

(* C3: a 429 answer to sendQuery always fails with the fixed rate-limit    *)
(* message and the body is never read, whatever it holds; the invocation   *)
(* never waits for the body of a 429.                                      *)
C3_RateLimitFirst ==
    \A i \in Calls :
        op[i] = "sendQuery" /\ Answered(i) /\ response[i].status = 429 =>
            /\ pc[i] \in {"fetched", "done"}
            /\ bodyReads[i] = 0
            /\ Done(i) =>
                 Failed(i, "Error", <<"Rate limit exceeded. Please wait a moment and try again.">>)

C3_Witness ==
    \E i \in Calls :
        /\ Done(i)
        /\ op[i] = "sendQuery"
        /\ Answered(i)
        /\ response[i].status = 429
        /\ response[i].body = DetailBody(Str("bad mode"))

(* C4: submitFeedback fails with the fixed duplicate-feedback message on   *)
(* 409, with the generic message on every other non-success status, and    *)
(* on success completes with no value; it never reads the response body.   *)
C4_FeedbackOutcomes ==
    \A i \in Calls :
        op[i] = "submitFeedback" =>
            /\ bodyReads[i] = 0
            /\ Done(i) /\ Answered(i) =>
                 IF response[i].status = 409
                 THEN Failed(i, "Error", <<"Feedback already submitted for this response">>)
                 ELSE IF response[i].status \notin 200..299
                 THEN Failed(i, "Error",
                             <<"Failed to submit feedback: ">> \o Pieces(response[i].statusText))
                 ELSE /\ outcome[i].state = "fulfilled"
                      /\ outcome[i].value.t = "undefined"

C4_Witness ==
    \E i \in Calls :
        /\ Done(i)
        /\ op[i] = "submitFeedback"
        /\ Answered(i)
        /\ response[i].status = 409
        /\ response[i].body = InvalidText

C6_NoErrorSwallowed ==
    \A i \in Calls :
        /\ outcome[i].state = "fulfilled" =>
             /\ Success(i)
             /\ op[i] # "submitFeedback" => response[i].body.syntax = "json"
        /\ Done(i) /\ ~Success(i) => outcome[i].state = "rejected"
        /\ Done(i) /\ response[i].state = "rejected" => outcome[i].error = response[i].error
        /\ Done(i) <=> outcome[i].state # "pending"

C6_Witness ==
    \E i \in Calls :
        /\ Done(i)
        /\ op[i] = "healthCheck"
        /\ response[i].state = "rejected"
        /\ response[i].error.name = "AbortError"

(* What an operation yields for an answer when it is the only invocation;  *)
(* Spec, where one invocation runs alone, satisfies SoloIsWhatRunsAlone.   *)
SoloOutcome(o, r) ==
    IF r.state = "rejected" THEN Reject(r.error)
    ELSE IF r.status \in 200..299
    THEN IF o = "submitFeedback" THEN Fulfil(NoValue)
         ELSE IF r.body.syntax = "json" THEN Fulfil(JSONparse(r.body))
         ELSE Reject(SyntaxError(r.body))
    ELSE CASE o = "createSession" ->
                Reject(NewError(<<"Failed to create session: ">> \o Pieces(r.statusText)))
           [] o = "healthCheck" -> Reject(NewError(<<"API health check failed">>))
           [] o = "submitFeedback" ->
                IF r.status = 409
                THEN Reject(NewError(<<"Feedback already submitted for this response">>))
                ELSE Reject(NewError(<<"Failed to submit feedback: ">> \o Pieces(r.statusText)))
           [] o = "sendQuery" ->
                IF r.status = 429
                THEN Reject(NewError(<<"Rate limit exceeded. Please wait a moment and try again.">>))
                ELSE IF r.status # 400
                THEN Reject(NewError(<<"Failed to send query: ">> \o Pieces(r.statusText)))
                ELSE IF r.body.syntax # "json" THEN Reject(SyntaxError(r.body))
                ELSE IF r.body.top = "null" THEN Reject(NullPropertyError)
                ELSE Reject(NewError(DetailMessage(JSONparse(r.body))))

SoloRequest(o, a) ==
    CASE o = "createSession" ->
           [url |-> <<baseUrl, "/api/session">>, method |-> "POST",
            contentType |-> "application/json", body |-> JSONstringify(CreateSessionBody(a[1].value))]
      [] o = "sendQuery" ->
           [url |-> <<baseUrl, "/api/chat">>, method |-> "POST",
            contentType |-> "application/json", body |-> JSONstringify(a)]
      [] o = "submitFeedback" ->
           [url |-> <<baseUrl, "/api/feedback">>, method |-> "POST",
            contentType |-> "application/json", body |-> JSONstringify(a)]
      [] o = "healthCheck" ->
           [url |-> <<baseUrl, "/api/health">>, method |-> "GET",
            contentType |-> "", body |-> NoBody]

SoloIsWhatRunsAlone ==
    /\ pc[1] # "idle" => requests[1] = <<SoloRequest(op[1], arg[1])>>
    /\ Done(1) => outcome[1] = SoloOutcome(op[1], response[1])

(* C7: with several invocations in flight and their answers arriving in    *)
(* any order, each invocation sends its own request (none is coalesced)    *)
(* and ends as it would have alone on its own answer.                      *)
C7_IndependentInvocations ==
    \A i \in Calls :
        /\ pc[i] # "idle" => requests[i] = <<SoloRequest(op[i], arg[i])>>
        /\ Done(i) => outcome[i] = SoloOutcome(op[i], response[i])

C7_Witness ==
    \E i, j \in Calls :
        /\ i < j
        /\ op[i] = op[j]
        /\ arg[i] = arg[j]
        /\ pc[i] = "awaitFetch"
        /\ Done(j)
        /\ outcome[j].state = "fulfilled"

(* The session_id of an object, Undefined when the object has none.        *)
SessionIdIn(members) ==
    IF \E n \in 1..Len(members) : members[n].key = "session_id"
    THEN members[CHOOSE n \in 1..Len(members) : members[n].key = "session_id"].value
    ELSE Undefined

(* C8: no operation changes the client: the base URL stays the one given   *)
(* at construction and is the one every request goes to, and the           *)
(* session_id in a sendQuery request is the one the caller passed in that  *)
(* call (none when the caller passed none), never one from an earlier      *)
(* answer.                                                                 *)
C8_NoStateCarriedOver ==
    /\ baseUrl = IF ctorArg # "" THEN ctorArg
                 ELSE IF nodeEnv = "production"
                 THEN "https://rag-chatbot-api-lr57.onrender.com"
                 ELSE "http://localhost:8000"
    /\ \A i \in Calls :
         pc[i] # "idle" =>
            /\ Len(requests[i]) >= 1
            /\ requests[i][1].url[1] = baseUrl
            /\ op[i] = "sendQuery" =>
                 SessionIdIn(requests[i][1].body.members) = SessionIdIn(arg[i])

C8_Witness ==
    \E i, j \in Calls :
        /\ i < j
        /\ Done(i)
        /\ outcome[i].state = "fulfilled"
        /\ op[i] \in {"createSession", "sendQuery"}
        /\ outcome[i].value.fields["session_id"] = Str("s2")
        /\ op[j] = "sendQuery"
        /\ pc[j] # "idle"
        /\ SessionIdIn(arg[j]) = Undefined
        /\ ~HasMember(requests[j][1].body, "session_id")

(* C9: on a success status createSession, sendQuery and healthCheck        *)
(* return the parsed body as received: the same properties with the same   *)
(* values, the elements of source_chunks in the order of the JSON array.   *)
C9_BodyReturnedAsReceived ==
    \A i \in Calls :
        Done(i) /\ Success(i) /\ op[i] \in {"createSession", "sendQuery", "healthCheck"}
          /\ response[i].body.syntax = "json" =>
            /\ outcome[i].state = "fulfilled"
            /\ outcome[i].value.t = response[i].body.top
            /\ DOMAIN outcome[i].value.fields =
                 {response[i].body.members[n].key : n \in 1..Len(response[i].body.members)}
            /\ \A n \in 1..Len(response[i].body.members) :
                 outcome[i].value.fields[response[i].body.members[n].key] =
                     response[i].body.members[n].value
            /\ response[i].body = ChatBody =>
                 outcome[i].value.fields["source_chunks"].items =
                     <<Chunk("c1", 71), Chunk("c2", 93), Chunk("c3", 85)>>

C9_Witness ==
    \E i \in Calls :
        /\ Done(i)
        /\ op[i] = "sendQuery"
        /\ Success(i)
        /\ response[i].body = ChatBody
        /\ outcome[i].state = "fulfilled"

(* C10: a 400 answer to sendQuery whose body is not JSON fails with the    *)
(* parse error itself; the body of an error answer is read by sendQuery    *)
(* on a 400 and by nothing else, and no body is read twice.                *)
C10_ParseErrorOn400 ==
    \A i \in Calls :
        /\ Done(i) /\ op[i] = "sendQuery" /\ Answered(i) /\ response[i].status = 400
             /\ response[i].body.syntax # "json" =>
                /\ outcome[i].state = "rejected"
                /\ outcome[i].error.name = "SyntaxError"
                /\ outcome[i].error.message # <<"Invalid request">>
                /\ outcome[i].error.message # <<"Failed to send query: ">> \o Pieces(response[i].statusText)
        /\ bodyReads[i] > 0 /\ Failure(i) => op[i] = "sendQuery" /\ response[i].status = 400
        /\ bodyReads[i] > 0 => Answered(i)
        /\ bodyReads[i] <= 1

C10_Witness ==
    \E i \in Calls :
        /\ Done(i)
        /\ op[i] = "sendQuery"
        /\ Answered(i)
        /\ response[i].status = 400
        /\ response[i].body = EmptyText
        /\ bodyReads[i] = 1

====
